---- MODULE Spec2Model ----
(***************************************************************************)
(* VoteHub poll search front end: the choice normaliser and the choice     *)
(* clustering of utils/pollUtils, the PollsTable component and the search  *)
(* handler of the Home page; and, of the service behind GET /api/polls,    *)
(* the colour assignment, the PartyResolver and the PipelineOrchestrator.  *)
(*                                                                         *)
(* A JavaScript string is a sequence of one-character strings, so that     *)
(* replace, trim, split, join and length are computed character by         *)
(* character.  A percentage is an integer; an average is kept as the exact *)
(* fraction total / count.                                                 *)
(***************************************************************************)
EXTENDS Integers, Sequences, FiniteSets, TLC

VARIABLES
    choice,       \* normalizeChoice: the label handed to the function
    variant,      \* a second label, derived from choice by edits
    key,          \* normalizeChoice(choice) once applied
    variantKey,   \* normalizeChoice(variant) once applied
    rekey,        \* normalizeChoice(key) once applied
    npc,          \* "input" until the function has been applied, then "done"
    props,        \* the polls, pollType and colorMap handed to a view
    choiceStats,  \* calculateChoicesWithColors: its choiceStats map
    choices,      \* calculateChoicesWithColors: the ChoiceData[] returned
    table,        \* PollsTable: its choiceStats, header columns and rows
    rendered,     \* "none", or the view rendered last: "chart" or "table"
    query,        \* Home: the text of the search input
    polls,        \* Home: all polls of the last successful search
    loading,      \* Home: a search is under way
    error,        \* Home: the error message shown, '' for none
    pollsGrouped, \* Home: the Map of group key to group, in insertion order
    activeTab,    \* Home: the group key of the selected tab, '' for none
    fetching,     \* the fetches awaited by calls of handleSearch, each the query it sent
    data,         \* the response body applied by the last search, if it got one
    partyCache,   \* PartyResolver: the process-wide cache, name to party
    nameLock,     \* PartyResolver: the holder of each name's lock
    lookups,      \* PartyResolver: per name, the external lookups issued,
                  \* those outstanding and the outcome of the last one
    callers,      \* the resolve calls: their position, name and result
    request,      \* PipelineOrchestrator: the position of process(query)
    tasks,        \* PipelineOrchestrator: the task of each fetched Division
    response      \* PipelineOrchestrator: what process(query) returned

normVars == <<choice, variant, key, variantKey, rekey, npc>>

viewVars == <<props, choiceStats, choices, table, rendered>>

pageVars == <<query, polls, loading, error, pollsGrouped, activeTab, fetching, data>>

resolverVars == <<partyCache, nameLock, lookups, callers>>

pipelineVars == <<request, tasks, response>>

backVars == <<resolverVars, pipelineVars>>

vars == <<normVars, viewVars, pageVars, backVars>>

(***************************************************************************)
(* Bounds                                                                  *)
(***************************************************************************)
MaxLen == 3

MaxPolls == 2

MaxAnswers == 2

MaxTotalAnswers == 3

MaxDivisions == 2

MaxDivPolls == 3

MaxRespPolls == 3

MaxCallers == 3

MaxFetchRetries == 2

MaxChoices == 11

(***************************************************************************)
(* A component that takes no part in a specification stays idle            *)
(***************************************************************************)
NoString == <<"<none>">>

NormIdle ==
    /\ choice = <<>>
    /\ variant = <<>>
    /\ key = NoString
    /\ variantKey = NoString
    /\ rekey = NoString
    /\ npc = "idle"

ViewIdle ==
    /\ props = [polls |-> <<>>, pollType |-> <<>>, colorMap |-> <<>>]
    /\ choiceStats = <<>>
    /\ choices = <<>>
    /\ table = [choiceStats |-> <<>>, uniqueChoices |-> <<>>, rows |-> <<>>]
    /\ rendered = "none"

NoData == [received |-> FALSE, body |-> <<>>, err |-> "none", query |-> <<>>]

PageIdle ==
    /\ query = <<>>
    /\ polls = <<>>
    /\ loading = FALSE
    /\ error = ""
    /\ pollsGrouped = <<>>
    /\ activeTab = <<>>
    /\ fetching = <<>>
    /\ data = NoData

\* the candidate names resolved
Names == {"Ann", "Bob"}

Callers == 1..MaxCallers

Absent == "<absent>"

NoLookups == [issued |-> 0, outstanding |-> 0, outcome |-> "none"]

IdleCaller == [pc |-> "idle", name |-> "", result |-> "", missed |-> FALSE]

\* the process has started: the cache is empty and nothing is resolving
ResolverIdle ==
    /\ partyCache = [n \in Names |-> Absent]
    /\ nameLock = [n \in Names |-> 0]
    /\ lookups = [n \in Names |-> NoLookups]
    /\ callers = [c \in Callers |-> IdleCaller]

NoResponse == [status |-> "none", divisions |-> {}]

PipelineIdle ==
    /\ request = [pc |-> "idle", attempts |-> 0]
    /\ tasks = <<>>
    /\ response = NoResponse

BackIdle == ResolverIdle /\ PipelineIdle

(***************************************************************************)
(* Strings                                                                 *)
(***************************************************************************)
\* the characters labels are built from: a letter, the two punctuation
\* marks the normaliser strips, and two kinds of white space
Alphabet == {"a", ".", ",", " ", "\t"}

\* the members of the regular expression class \s that occur in Alphabet
IsSpace(c) == c \in {" ", "\t"}

IsPunct(c) == c \in {".", ","}

StringsUpTo(n) == UNION {[1..k -> Alphabet] : k \in 0..n}

\* String.prototype.replace(/c/g, '')
RemoveChar(s, c) == SelectSeq(s, LAMBDA x : x # c)

RECURSIVE CollapseFrom(_, _)
CollapseFrom(s, i) ==
    IF i > Len(s) THEN <<>>
    ELSE IF IsSpace(s[i])
         THEN IF i > 1 /\ IsSpace(s[i-1])
              THEN CollapseFrom(s, i + 1)
              ELSE <<" ">> \o CollapseFrom(s, i + 1)
         ELSE <<s[i]>> \o CollapseFrom(s, i + 1)

\* String.prototype.replace(/\s+/g, ' ')
CollapseSpaces(s) == CollapseFrom(s, 1)

\* String.prototype.trim()
Trim(s) ==
    LET solid == {i \in 1..Len(s) : ~IsSpace(s[i])}
    IN  IF solid = {} THEN <<>>
        ELSE LET lo == CHOOSE i \in solid : \A j \in solid : i <= j
                 hi == CHOOSE i \in solid : \A j \in solid : j <= i
             IN  SubSeq(s, lo, hi)

\* the same steps without the final trim
normalizeChoiceNoTrim(s) ==
    CollapseSpaces(RemoveChar(RemoveChar(s, "."), ","))

\* the same steps with the trim applied first instead of last
normalizeChoiceTrimFirst(s) ==
    CollapseSpaces(RemoveChar(RemoveChar(Trim(s), "."), ","))

normalizeChoice(s) ==
    Trim(CollapseSpaces(RemoveChar(RemoveChar(s, "."), ",")))

(***************************************************************************)
(* Array.prototype.sort                                                    *)
(***************************************************************************)
\* rank of the elements i, i+1, ... of an array of length n under the
\* comparator cmp[i, j] = compareFn(s[i], s[j]): one more than the number of
\* elements that compare smaller or that compare equal and come earlier
RECURSIVE RanksFrom(_, _, _)
RanksFrom(n, cmp, i) ==
    IF i > n THEN <<>>
    ELSE <<1 + Cardinality({j \in 1..n :
                  \/ cmp[j, i] < 0
                  \/ (cmp[j, i] = 0 /\ j < i)})>>
         \o RanksFrom(n, cmp, i + 1)

RECURSIVE PlaceFrom(_, _, _)
PlaceFrom(s, ranks, r) ==
    IF r > Len(s) THEN <<>>
    ELSE <<s[CHOOSE i \in 1..Len(s) : ranks[i] = r]>> \o PlaceFrom(s, ranks, r + 1)

\* the stable sort of ECMAScript 2019 for a consistent comparator: a
\* negative compareFn(a, b) puts a first, and elements that compare equal
\* keep their order
ArraySort(s, cmp) == PlaceFrom(s, RanksFrom(Len(s), cmp, 1), 1)

RECURSIVE SumSeq(_)
SumSeq(s) == IF s = <<>> THEN 0 ELSE Head(s) + SumSeq(Tail(s))

\* Array.prototype.reverse
Reverse(s) == [i \in 1..Len(s) |-> s[Len(s) + 1 - i]]

(***************************************************************************)
(* utils/pollUtils: calculateChoicesWithColors                             *)
(***************************************************************************)
TopChoices == 10

GRAY == "#7f7f7f"

BLACK == "#000000"

MUTED == "#9ca3af"

Undefined == "undefined"

\* colorMap[name]
ColorOf(colorMap, name) ==
    IF name \in DOMAIN colorMap THEN colorMap[name] ELSE Undefined

\* a || b for a colour a that may be undefined or the empty string
OrElse(a, b) == IF a = Undefined \/ a = "" THEN b ELSE a

\* the answers of all polls in the order polls.forEach / answers.forEach visit
RECURSIVE AnswersFrom(_, _)
AnswersFrom(pollList, i) ==
    IF i > Len(pollList) THEN <<>>
    ELSE pollList[i].answers \o AnswersFrom(pollList, i + 1)

AllAnswers(pollList) == AnswersFrom(pollList, 1)

\* choiceStats.get(normalized): the index of the entry, 0 when there is none
EntryIndex(stats, normalized) ==
    IF \E i \in 1..Len(stats) : stats[i].normalized = normalized
    THEN CHOOSE i \in 1..Len(stats) : stats[i].normalized = normalized
    ELSE 0

\* the body of the inner forEach, with the answers keyed by their raw label
AddAnswerRawKey(stats, answer) ==
    LET normalized == answer.choice
        idx == EntryIndex(stats, normalized)
        old == IF idx = 0
               THEN [normalized |-> normalized, total |-> 0, count |-> 0,
                     displayName |-> normalized, originalNames |-> <<>>]
               ELSE stats[idx]
        new == [old EXCEPT
                  !.total = @ + answer.pct,
                  !.count = @ + 1,
                  !.originalNames = Append(@, answer.choice),
                  !.displayName = IF Len(answer.choice) < Len(@)
                                  THEN answer.choice ELSE @]
    IN  IF idx = 0 THEN Append(stats, new) ELSE [stats EXCEPT ![idx] = new]

\* the body of the inner forEach, with a new entry's displayName seeded with
\* the answer's own label
AddAnswerLabelSeed(stats, answer) ==
    LET normalized == normalizeChoice(answer.choice)
        idx == EntryIndex(stats, normalized)
        old == IF idx = 0
               THEN [normalized |-> normalized, total |-> 0, count |-> 0,
                     displayName |-> answer.choice, originalNames |-> <<>>]
               ELSE stats[idx]
        new == [old EXCEPT
                  !.total = @ + answer.pct,
                  !.count = @ + 1,
                  !.originalNames = Append(@, answer.choice),
                  !.displayName = IF Len(answer.choice) < Len(@)
                                  THEN answer.choice ELSE @]
    IN  IF idx = 0 THEN Append(stats, new) ELSE [stats EXCEPT ![idx] = new]

\* the body of the inner forEach
AddAnswer(stats, answer) ==
    LET normalized == normalizeChoice(answer.choice)
        idx == EntryIndex(stats, normalized)
        old == IF idx = 0
               THEN [normalized |-> normalized, total |-> 0, count |-> 0,
                     displayName |-> normalized, originalNames |-> <<>>]
               ELSE stats[idx]
        new == [old EXCEPT
                  !.total = @ + answer.pct,
                  !.count = @ + 1,
                  !.originalNames = Append(@, answer.choice),
                  !.displayName = IF Len(answer.choice) < Len(@)
                                  THEN answer.choice ELSE @]
    IN  IF idx = 0 THEN Append(stats, new) ELSE [stats EXCEPT ![idx] = new]

RECURSIVE ScanFrom(_, _, _)
ScanFrom(answers, i, stats) ==
    IF i > Len(answers) THEN stats
    ELSE ScanFrom(answers, i + 1, AddAnswer(stats, answers[i]))

\* the Map built by the two nested forEach loops, in insertion order
BuildChoiceStats(pollList) == ScanFrom(AllAnswers(pollList), 1, <<>>)

\* the answers of all polls, each with the sample size of its poll
RECURSIVE SizedAnswersFrom(_, _)
SizedAnswersFrom(pollList, i) ==
    IF i > Len(pollList) THEN <<>>
    ELSE [a \in 1..Len(pollList[i].answers) |->
            [choice |-> pollList[i].answers[a].choice,
             pct |-> pollList[i].answers[a].pct,
             size |-> pollList[i].sample_size]]
         \o SizedAnswersFrom(pollList, i + 1)

RECURSIVE WeightedFrom(_, _, _)
WeightedFrom(sized, i, normalized) ==
    IF i > Len(sized) THEN [num |-> 0, den |-> 0]
    ELSE LET rest == WeightedFrom(sized, i + 1, normalized)
         IN  IF normalizeChoice(sized[i].choice) = normalized
             THEN [num |-> rest.num + sized[i].pct * sized[i].size,
                   den |-> rest.den + sized[i].size]
             ELSE rest

\* the average of a cluster with every answer weighted by its poll's
\* sample size
AverageBySampleSize(stats, pollList) ==
    WeightedFrom(SizedAnswersFrom(pollList, 1), 1, stats.normalized)

\* stats.total / stats.count, as an exact fraction
Average(stats, pollList) == [num |-> stats.total, den |-> stats.count]

\* b.average - a.average, up to the positive factor a.den * b.den
ByAverageDesc(a, b) == b.average.num * a.average.den - a.average.num * b.average.den

\* Array.from(choiceStats.entries()).map(...).sort(...)
UniqueChoices(stats, pollList) ==
    LET mapped == [i \in 1..Len(stats) |->
                     [normalized |-> stats[i].normalized,
                      displayName |-> stats[i].displayName,
                      average |-> Average(stats[i], pollList)]]
    IN  ArraySort(mapped, [i \in 1..Len(mapped), j \in 1..Len(mapped) |->
                              ByAverageDesc(mapped[i], mapped[j])])

\* Array.prototype.slice(0, n + 1)
SliceToInclusive(s, n) == SubSeq(s, 1, IF Len(s) < n + 1 THEN Len(s) ELSE n + 1)

\* Array.prototype.slice(0, n)
SliceTo(s, n) == SubSeq(s, 1, IF Len(s) < n THEN Len(s) ELSE n)

calculateChoicesWithColors(pollList, colorMap) ==
    LET top == SliceTo(UniqueChoices(BuildChoiceStats(pollList), pollList), TopChoices)
    IN  [i \in 1..Len(top) |->
           [displayName |-> top[i].displayName,
            average |-> top[i].average,
            color |-> OrElse(ColorOf(colorMap, top[i].displayName), GRAY)]]

(***************************************************************************)
(* components/PollsTable                                                   *)
(***************************************************************************)
UpperLetters == <<"A", "B", "C", "D", "E", "F", "G", "H", "I", "J", "K", "L", "M",
                  "N", "O", "P", "Q", "R", "S", "T", "U", "V", "W", "X", "Y", "Z">>

LowerLetters == <<"a", "b", "c", "d", "e", "f", "g", "h", "i", "j", "k", "l", "m",
                  "n", "o", "p", "q", "r", "s", "t", "u", "v", "w", "x", "y", "z">>

\* String.prototype.toLowerCase
ToLowerCase(s) ==
    [i \in 1..Len(s) |->
        IF \E k \in 1..26 : UpperLetters[k] = s[i]
        THEN LowerLetters[CHOOSE k \in 1..26 : UpperLetters[k] = s[i]]
        ELSE s[i]]

STR_approval == <<"a", "p", "p", "r", "o", "v", "a", "l">>

STR_favorability == <<"f", "a", "v", "o", "r", "a", "b", "i", "l", "i", "t", "y">>

STR_generic_ballot == <<"g", "e", "n", "e", "r", "i", "c", "-", "b", "a", "l", "l", "o", "t">>

STR_approve == <<"a", "p", "p", "r", "o", "v", "e">>

STR_disapprove == <<"d", "i", "s", "a", "p", "p", "r", "o", "v", "e">>

STR_favorable == <<"f", "a", "v", "o", "r", "a", "b", "l", "e">>

STR_unfavorable == <<"u", "n", "f", "a", "v", "o", "r", "a", "b", "l", "e">>

STR_dem == <<"d", "e", "m">>

STR_rep == <<"r", "e", "p">>

ORANGE == "#e08728"

GREEN == "#288544"

BLUE == "#2853e0"

RED == "#e02f28"

\* PollsTable's own copy of the two nested forEach loops
\* the body of the component's inner forEach, with the entry found by the
\* answer's raw label
TableAddAnswerRawLookup(stats, answer) ==
    LET normalized == normalizeChoice(answer.choice)
        idx == EntryIndex(stats, answer.choice)
        old == IF idx = 0
               THEN [normalized |-> normalized, total |-> 0, count |-> 0,
                     displayName |-> normalized, originalNames |-> <<>>]
               ELSE stats[idx]
        new == [old EXCEPT
                  !.total = @ + answer.pct,
                  !.count = @ + 1,
                  !.originalNames = Append(@, answer.choice),
                  !.displayName = IF Len(answer.choice) < Len(@)
                                  THEN answer.choice ELSE @]
    IN  IF idx = 0 THEN Append(stats, new) ELSE [stats EXCEPT ![idx] = new]

\* the body of the component's own inner forEach
TableAddAnswer(stats, answer) ==
    LET normalized == normalizeChoice(answer.choice)
        idx == EntryIndex(stats, normalized)
        old == IF idx = 0
               THEN [normalized |-> normalized, total |-> 0, count |-> 0,
                     displayName |-> normalized, originalNames |-> <<>>]
               ELSE stats[idx]
        new == [old EXCEPT
                  !.total = @ + answer.pct,
                  !.count = @ + 1,
                  !.originalNames = Append(@, answer.choice),
                  !.displayName = IF Len(answer.choice) < Len(@)
                                  THEN answer.choice ELSE @]
    IN  IF idx = 0 THEN Append(stats, new) ELSE [stats EXCEPT ![idx] = new]

RECURSIVE TableScanFrom(_, _, _)
TableScanFrom(answers, i, stats) ==
    IF i > Len(answers) THEN stats
    ELSE TableScanFrom(answers, i + 1, TableAddAnswer(stats, answers[i]))

\* the component's own choiceStats Map, in insertion order
TableChoiceStats(pollList) == TableScanFrom(AllAnswers(pollList), 1, <<>>)

\* the component's own uniqueChoices: mapped entries sorted by b.average -
\* a.average
TableUniqueChoices(stats) ==
    LET mapped == [i \in 1..Len(stats) |->
                     [normalized |-> stats[i].normalized,
                      displayName |-> stats[i].displayName,
                      average |-> [num |-> stats[i].total, den |-> stats[i].count]]]
    IN  ArraySort(mapped, [i \in 1..Len(mapped), j \in 1..Len(mapped) |->
                              mapped[j].average.num * mapped[i].average.den
                              - mapped[i].average.num * mapped[j].average.den])

\* poll.answers.find(a => normalizeChoice(a.choice) === normalizedChoice)
getAnswerPct(poll, normalizedChoice) ==
    LET hits == {i \in 1..Len(poll.answers) :
                    normalizeChoice(poll.answers[i].choice) = normalizedChoice}
    IN  IF hits = {} THEN [isNull |-> TRUE, pct |-> 0]
        ELSE [isNull |-> FALSE,
              pct |-> poll.answers[CHOOSE i \in hits : \A j \in hits : i <= j].pct]

\* b.pct - a.pct
ByPctDesc(a, b) == b.pct - a.pct

\* getWinnerInfo reading the answers in the order of the response, unsorted
getWinnerInfoUnsorted(poll, stats) ==
    LET sorted == poll.answers
        winner == sorted[1]
        margin == IF Len(sorted) > 1 THEN winner.pct - sorted[2].pct ELSE winner.pct
        normalizedWinner == normalizeChoice(winner.choice)
        idx == EntryIndex(stats, normalizedWinner)
        displayName == IF idx # 0 /\ stats[idx].displayName # <<>>
                       THEN stats[idx].displayName ELSE winner.choice
    IN  [winner |-> displayName, margin |-> margin]

\* getWinnerInfo for a poll with at least one answer
getWinnerInfo(poll, stats) ==
    LET sorted == ArraySort(poll.answers,
                            [i \in 1..Len(poll.answers), j \in 1..Len(poll.answers) |->
                                ByPctDesc(poll.answers[i], poll.answers[j])])
        winner == sorted[1]
        margin == IF Len(sorted) > 1 THEN winner.pct - sorted[2].pct ELSE winner.pct
        normalizedWinner == normalizeChoice(winner.choice)
        idx == EntryIndex(stats, normalizedWinner)
        displayName == IF idx # 0 /\ stats[idx].displayName # <<>>
                       THEN stats[idx].displayName ELSE winner.choice
    IN  [winner |-> displayName, margin |-> margin]

\* the rules compared with the label's own letter case
getWinnerColorCaseSensitive(poll, winnerChoice, colorMap) ==
    IF OrElse(ColorOf(colorMap, winnerChoice), Undefined) # Undefined
    THEN colorMap[winnerChoice]
    ELSE LET pollTypeNormalized == ToLowerCase(poll.poll_type)
             winnerNormalized == normalizeChoice(winnerChoice)
         IN  IF pollTypeNormalized \in {STR_approval, STR_favorability}
             THEN IF winnerNormalized \in {STR_disapprove, STR_unfavorable} THEN ORANGE
                  ELSE IF winnerNormalized \in {STR_approve, STR_favorable} THEN GREEN
                  ELSE BLACK
             ELSE IF pollTypeNormalized = STR_generic_ballot
             THEN IF winnerNormalized = STR_dem THEN BLUE
                  ELSE IF winnerNormalized = STR_rep THEN RED
                  ELSE BLACK
             ELSE BLACK

\* the generic-ballot rule looked up under the type written with an
\* underscore
getWinnerColorUnderscoreType(poll, winnerChoice, colorMap) ==
    IF OrElse(ColorOf(colorMap, winnerChoice), Undefined) # Undefined
    THEN colorMap[winnerChoice]
    ELSE LET pollTypeNormalized == ToLowerCase(poll.poll_type)
             winnerNormalized == ToLowerCase(normalizeChoice(winnerChoice))
         IN  IF pollTypeNormalized \in {STR_approval, STR_favorability}
             THEN IF winnerNormalized \in {STR_disapprove, STR_unfavorable} THEN ORANGE
                  ELSE IF winnerNormalized \in {STR_approve, STR_favorable} THEN GREEN
                  ELSE BLACK
             ELSE IF pollTypeNormalized
                        = <<"g", "e", "n", "e", "r", "i", "c", "_",
                            "b", "a", "l", "l", "o", "t">>
             THEN IF winnerNormalized = STR_dem THEN BLUE
                  ELSE IF winnerNormalized = STR_rep THEN RED
                  ELSE BLACK
             ELSE BLACK

getWinnerColor(poll, winnerChoice, colorMap) ==
    IF OrElse(ColorOf(colorMap, winnerChoice), Undefined) # Undefined
    THEN colorMap[winnerChoice]
    ELSE LET pollTypeNormalized == ToLowerCase(poll.poll_type)
             winnerNormalized == ToLowerCase(normalizeChoice(winnerChoice))
         IN  IF pollTypeNormalized \in {STR_approval, STR_favorability}
             THEN IF winnerNormalized \in {STR_disapprove, STR_unfavorable} THEN ORANGE
                  ELSE IF winnerNormalized \in {STR_approve, STR_favorable} THEN GREEN
                  ELSE BLACK
             ELSE IF pollTypeNormalized = STR_generic_ballot
             THEN IF winnerNormalized = STR_dem THEN BLUE
                  ELSE IF winnerNormalized = STR_rep THEN RED
                  ELSE BLACK
             ELSE BLACK

\* the Result cell of one row
ResultCell(poll, stats, colorMap) ==
    IF Len(poll.answers) = 0
    THEN [text |-> "-", winner |-> <<>>, margin |-> 0, color |-> Undefined]
    ELSE LET winnerInfo == getWinnerInfo(poll, stats)
         IN  IF winnerInfo.margin = 0
             THEN [text |-> "Tied", winner |-> winnerInfo.winner,
                   margin |-> 0, color |-> BLACK]
             ELSE [text |-> "winner", winner |-> winnerInfo.winner,
                   margin |-> winnerInfo.margin,
                   color |-> getWinnerColor(poll, winnerInfo.winner, colorMap)]

\* the percentage cell of one row under one header column
ChoiceCell(poll, item, colorMap) ==
    LET pct == getAnswerPct(poll, item.normalized)
        choiceColor == ColorOf(colorMap, item.displayName)
    IN  [pct |-> pct,
         color |-> IF ~pct.isNull THEN OrElse(choiceColor, BLACK) ELSE MUTED]

\* what one render of PollsTable computes from its props
PollsTable(p) ==
    LET stats == TableChoiceStats(p.polls)
        uniqueChoices == TableUniqueChoices(stats)
        columns == SliceTo(uniqueChoices, TopChoices)
    IN  [choiceStats |-> stats,
         uniqueChoices |-> uniqueChoices,
         rows |-> [r \in 1..Len(p.polls) |->
                     [result |-> ResultCell(p.polls[r], stats, p.colorMap),
                      cells |-> [c \in 1..Len(columns) |->
                                   ChoiceCell(p.polls[r], columns[c], p.colorMap)]]]]

(***************************************************************************)
(* The views rendered from the props of one division                       *)
(***************************************************************************)
Range(f) == {f[x] : x \in DOMAIN f}

Answers(labels, pcts) == [choice : labels, pct : pcts]

SeqsUpTo(S, n) == UNION {[1..k -> S] : k \in 0..n}

\* the answers n, n+1, ..., count of a poll whose first answer is
\* flat[offset + 1]
RECURSIVE PollAnswersFrom(_, _, _, _)
PollAnswersFrom(flat, offset, n, count) ==
    IF n > count THEN <<>>
    ELSE <<flat[offset + n]>> \o PollAnswersFrom(flat, offset, n + 1, count)

\* the polls i, i+1, ... of one division: the i-th poll has sample size
\* sizes[i] and the next lens[i] of the answers; every poll carries the
\* division's type
RECURSIVE PollListFrom(_, _, _, _, _, _)
PollListFrom(lens, sizes, flat, type, i, offset) ==
    IF i > Len(lens) THEN <<>>
    ELSE <<[id |-> i, poll_type |-> type, end_date |-> <<>>,
            sample_size |-> sizes[i],
            answers |-> PollAnswersFrom(flat, offset, 1, lens[i])]>>
         \o PollListFrom(lens, sizes, flat, type, i + 1, offset + lens[i])

InitView(labels, pcts, sizes, types, colorMaps) ==
    /\ \E type \in types, cm \in colorMaps :
          \E k \in 0..MaxPolls :
             \E lens \in [1..k -> 0..MaxAnswers] :
                /\ SumSeq(lens) <= MaxTotalAnswers
                /\ \E ss \in [1..k -> sizes] :
                      \E flat \in [1..SumSeq(lens) -> Answers(labels, pcts)] :
                         props = [polls |-> PollListFrom(lens, ss, flat, type, 1, 0),
                                  pollType |-> type, colorMap |-> cm]
    /\ choiceStats = <<>>
    /\ choices = <<>>
    /\ table = [choiceStats |-> <<>>, uniqueChoices |-> <<>>, rows |-> <<>>]
    /\ rendered = "none"
    /\ NormIdle
    /\ PageIdle
    /\ BackIdle

\* ChartView is rendered: the page calls calculateChoicesWithColors
RenderChart ==
    /\ rendered = "none"
    /\ choiceStats' = BuildChoiceStats(props.polls)
    /\ choices' = calculateChoicesWithColors(props.polls, props.colorMap)
    /\ rendered' = "chart"
    /\ UNCHANGED <<props, table>>
    /\ UNCHANGED <<normVars, pageVars, backVars>>

\* PollsTable is rendered: it calls calculateChoicesWithColors for the
\* summary and builds its own statistics for the header and the rows
RenderTable ==
    /\ rendered = "none"
    /\ choiceStats' = BuildChoiceStats(props.polls)
    /\ choices' = calculateChoicesWithColors(props.polls, props.colorMap)
    /\ table' = PollsTable(props)
    /\ rendered' = "table"
    /\ UNCHANGED props
    /\ UNCHANGED <<normVars, pageVars, backVars>>

NextView ==
    \/ RenderChart
    \/ RenderTable

L_Approve == <<"A", "p", "p", "r", "o", "v", "e">>

L_ApproveDot == <<"A", "p", "p", "r", "o", "v", "e", ".">>

L_Dem == <<"D", "e", "m">>

L_Other == <<"O", "t", "h", "e", "r">>

STR_general == <<"g", "e", "n", "e", "r", "a", "l">>

NoColors == <<>>

ApproveGreen == [n \in {L_Approve} |-> GREEN]

\* clustering: labels with equal and with different canonical keys
InitCluster ==
    InitView({L_Approve, L_ApproveDot, L_Dem}, {44, 45}, {1000},
             {STR_approval}, {NoColors})

\* averaging: one cluster, polls of different sample sizes
InitAverage ==
    InitView({L_Approve, L_ApproveDot}, {44, 45}, {500, 1000},
             {STR_approval}, {NoColors})

\* colouring: choices with and without a colour-map entry or a rule
InitColour ==
    InitView({L_Approve, L_Dem, L_Other}, {45}, {1000},
             {STR_approval, STR_generic_ballot, STR_general},
             {NoColors, ApproveGreen})

\* more clusters than the summary and the header keep: one poll with an
\* answer for each of the first n letters, and possibly a second poll with
\* one more answer for the first letter, written with a full stop
TopLabel(i) == <<LowerLetters[i]>>

InitTop ==
    /\ \E n \in 0..MaxChoices :
          \E pcts \in [1..n -> {44, 45}] :
             \E extra \in {0, 44, 46} :
                props = [polls |->
                           <<[id |-> 1, poll_type |-> STR_approval, end_date |-> <<>>,
                              sample_size |-> 1000,
                              answers |-> [i \in 1..n |->
                                             [choice |-> TopLabel(i), pct |-> pcts[i]]]]>>
                           \o (IF extra = 0 THEN <<>>
                               ELSE <<[id |-> 2, poll_type |-> STR_approval,
                                       end_date |-> <<>>, sample_size |-> 1000,
                                       answers |-> <<[choice |-> TopLabel(1) \o <<".">>,
                                                      pct |-> extra]>>]>>),
                         pollType |-> STR_approval, colorMap |-> NoColors]
    /\ choiceStats = <<>>
    /\ choices = <<>>
    /\ table = [choiceStats |-> <<>>, uniqueChoices |-> <<>>, rows |-> <<>>]
    /\ rendered = "none"
    /\ NormIdle
    /\ PageIdle
    /\ BackIdle

\* winners and margins: polls with no, one or two answers, percentages that
\* tie and percentages of zero
InitWinner ==
    InitView({L_Approve, L_Dem}, {0, 44, 45}, {1000}, {STR_approval}, {NoColors})

SpecWinner == InitWinner /\ [][NextView]_vars

SpecTop == InitTop /\ [][NextView]_vars

SpecCluster == InitCluster /\ [][NextView]_vars

SpecAverage == InitAverage /\ [][NextView]_vars

SpecColour == InitColour /\ [][NextView]_vars

L_APPROVE == <<"A", "P", "P", "R", "O", "V", "E">>

L_UnfavorableDot == <<"U", "n", "f", "a", "v", "o", "r", "a", "b", "l", "e", ".">>

L_Unfavorable == <<"U", "n", "f", "a", "v", "o", "r", "a", "b", "l", "e">>

L_RepDot == <<"R", "E", "P", ".">>

L_Rep == <<"R", "E", "P">>

T_Favorability == <<"F", "a", "v", "o", "r", "a", "b", "i", "l", "i", "t", "y">>

T_GenericBallot == <<"G", "e", "n", "e", "r", "i", "c", "-", "b", "a", "l", "l", "o", "t">>

\* colour maps whose entries differ from the rules' colours
SentimentOverride == [n \in {L_APPROVE, L_Unfavorable} |-> BLUE]

BallotOverride == [n \in {L_Dem, L_Rep} |-> IF n = L_Dem THEN RED ELSE BLUE]

\* sentiment polls: labels in other letter cases and with punctuation,
\* with and without colour-map entries
InitSentiment ==
    InitView({L_APPROVE, L_UnfavorableDot}, {44, 45}, {1000},
             {STR_approval, T_Favorability}, {NoColors, SentimentOverride})

\* generic-ballot polls, with and without colour-map entries
InitBallot ==
    InitView({L_Dem, L_RepDot}, {44, 45}, {1000},
             {STR_generic_ballot, T_GenericBallot}, {NoColors, BallotOverride})

SpecSentiment == InitSentiment /\ [][NextView]_vars

SpecBallot == InitBallot /\ [][NextView]_vars

(***************************************************************************)
(* The normaliser applied to a label and to a variant of it                *)
(***************************************************************************)
InsertAt(s, i, c) ==
    [j \in 1..(Len(s) + 1) |->
        IF j < i THEN s[j] ELSE IF j = i THEN c ELSE s[j-1]]

DeleteAt(s, i) ==
    [j \in 1..(Len(s) - 1) |-> IF j < i THEN s[j] ELSE s[j+1]]

\* a white-space character at position i of s lengthens or shortens a run,
\* or is leading or trailing white space
InRunOrEdge(s, i) ==
    \/ i = 1
    \/ i = Len(s)
    \/ (i > 1 /\ IsSpace(s[i-1]))
    \/ (i < Len(s) /\ IsSpace(s[i+1]))

InitNormalize ==
    /\ choice \in StringsUpTo(MaxLen)
    /\ variant = choice
    /\ key = NoString
    /\ variantKey = NoString
    /\ rekey = NoString
    /\ npc = "input"
    /\ ViewIdle
    /\ PageIdle
    /\ BackIdle

\* the variant gains a period or a comma
InsertPunct ==
    /\ npc = "input"
    /\ Len(variant) < MaxLen
    /\ \E i \in 1..(Len(variant) + 1), c \in {".", ","} :
          variant' = InsertAt(variant, i, c)
    /\ UNCHANGED <<choice, key, variantKey, rekey, npc>>
    /\ UNCHANGED <<viewVars, pageVars, backVars>>

\* the variant loses a period or a comma
DeletePunct ==
    /\ npc = "input"
    /\ \E i \in 1..Len(variant) :
          /\ IsPunct(variant[i])
          /\ variant' = DeleteAt(variant, i)
    /\ UNCHANGED <<choice, key, variantKey, rekey, npc>>
    /\ UNCHANGED <<viewVars, pageVars, backVars>>

\* a run of white space, or the leading or trailing white space, grows
InsertSpace ==
    /\ npc = "input"
    /\ Len(variant) < MaxLen
    /\ \E i \in 1..(Len(variant) + 1), c \in {" ", "\t"} :
          LET t == InsertAt(variant, i, c)
          IN  /\ InRunOrEdge(t, i)
              /\ variant' = t
    /\ UNCHANGED <<choice, key, variantKey, rekey, npc>>
    /\ UNCHANGED <<viewVars, pageVars, backVars>>

\* a run of white space, or the leading or trailing white space, shrinks
DeleteSpace ==
    /\ npc = "input"
    /\ \E i \in 1..Len(variant) :
          /\ IsSpace(variant[i])
          /\ InRunOrEdge(variant, i)
          /\ variant' = DeleteAt(variant, i)
    /\ UNCHANGED <<choice, key, variantKey, rekey, npc>>
    /\ UNCHANGED <<viewVars, pageVars, backVars>>

\* one kind of white space is replaced by another
SwapSpace ==
    /\ npc = "input"
    /\ \E i \in 1..Len(variant), c \in {" ", "\t"} :
          /\ IsSpace(variant[i])
          /\ c # variant[i]
          /\ variant' = [variant EXCEPT ![i] = c]
    /\ UNCHANGED <<choice, key, variantKey, rekey, npc>>
    /\ UNCHANGED <<viewVars, pageVars, backVars>>

Normalize ==
    /\ npc = "input"
    /\ key' = normalizeChoice(choice)
    /\ variantKey' = normalizeChoice(variant)
    /\ rekey' = normalizeChoice(normalizeChoice(choice))
    /\ npc' = "done"
    /\ UNCHANGED <<choice, variant>>
    /\ UNCHANGED <<viewVars, pageVars, backVars>>

NextNormalize ==
    \/ InsertPunct
    \/ DeletePunct
    \/ InsertSpace
    \/ DeleteSpace
    \/ SwapSpace
    \/ Normalize

SpecNormalize == InitNormalize /\ [][NextNormalize]_vars

(***************************************************************************)
(* app/page: Home and its handleSearch                                     *)
(***************************************************************************)
\* String.prototype.split(sep) for a one-character separator
Split(s, sep) ==
    LET seps == {i \in 1..Len(s) : s[i] = sep}
        \* the position of the k-th separator; 0 and Len(s) + 1 bracket them
        pos(k) == IF k = 0 THEN 0
                  ELSE IF k > Cardinality(seps) THEN Len(s) + 1
                  ELSE CHOOSE i \in seps :
                          Cardinality({j \in seps : j < i}) = k - 1
    IN  [k \in 1..(Cardinality(seps) + 1) |->
            SubSeq(s, pos(k - 1) + 1, pos(k) - 1)]

\* Array.prototype.join(sep)
RECURSIVE Join(_, _)
Join(parts, sep) ==
    IF Len(parts) = 0 THEN <<>>
    ELSE IF Len(parts) = 1 THEN parts[1]
    ELSE parts[1] \o <<sep>> \o Join(Tail(parts), sep)

DigitValue(c) ==
    CASE c = "0" -> 0 [] c = "1" -> 1 [] c = "2" -> 2 [] c = "3" -> 3
      [] c = "4" -> 4 [] c = "5" -> 5 [] c = "6" -> 6 [] c = "7" -> 7
      [] c = "8" -> 8 [] c = "9" -> 9

\* the days from 1970-01-01 to the civil date y-m-d
DaysFromCivil(y, m, d) ==
    LET yy  == IF m <= 2 THEN y - 1 ELSE y
        era == yy \div 400
        yoe == yy - era * 400
        mp  == IF m > 2 THEN m - 3 ELSE m + 9
        doy == (153 * mp + 2) \div 5 + d - 1
        doe == yoe * 365 + yoe \div 4 - yoe \div 100 + doy
    IN  era * 146097 + doe - 719468

\* new Date(s).getTime() for a date-only string YYYY-MM-DD, which is read
\* as midnight UTC; counted in days, the unit in which such times differ
\* (the millisecond count is 86400000 times this)
DateGetTime(s) ==
    LET y == 1000 * DigitValue(s[1]) + 100 * DigitValue(s[2])
               + 10 * DigitValue(s[3]) + DigitValue(s[4])
        m == 10 * DigitValue(s[6]) + DigitValue(s[7])
        d == 10 * DigitValue(s[9]) + DigitValue(s[10])
    IN  DaysFromCivil(y, m, d)

\* new Date(a.end_date).getTime() - new Date(b.end_date).getTime()
ByEndDateAsc(a, b) == DateGetTime(a.end_date) - DateGetTime(b.end_date)

\* new Date(b.end_date).getTime() - new Date(a.end_date).getTime()
ByEndDateDesc(a, b) == DateGetTime(b.end_date) - DateGetTime(a.end_date)

\* an ascending sort that is then reversed
SortedPollsReversed(divisionPolls) ==
    Reverse(ArraySort(divisionPolls,
                      [i \in 1..Len(divisionPolls), j \in 1..Len(divisionPolls) |->
                          ByEndDateAsc(divisionPolls[i], divisionPolls[j])]))

\* divisionData.polls.sort(...)
SortedPolls(divisionPolls) ==
    ArraySort(divisionPolls,
              [i \in 1..Len(divisionPolls), j \in 1..Len(divisionPolls) |->
                  ByEndDateDesc(divisionPolls[i], divisionPolls[j])])

\* const [subject, ...pollTypeParts] = divisionKey.split('_') and
\* pollTypeParts.join('-')
ParseDivisionKey(divisionKey) ==
    LET parts == Split(divisionKey, "_")
    IN  [subject |-> parts[1], pollType |-> Join(Tail(parts), "-")]

\* `${subject}|${pollType}`
GroupKey(subject, pollType) == subject \o <<"|">> \o pollType

\* grouped.get: the index of the entry for a key, 0 when there is none
GroupIndex(grouped, groupKey) ==
    IF \E i \in 1..Len(grouped) : grouped[i].key = groupKey
    THEN CHOOSE i \in 1..Len(grouped) : grouped[i].key = groupKey
    ELSE 0

\* grouped.set: a new key is appended, a known key keeps its place
MapSet(grouped, entry) ==
    LET idx == GroupIndex(grouped, entry.key)
    IN  IF idx = 0 THEN Append(grouped, entry)
        ELSE [grouped EXCEPT ![idx] = entry]

\* the body of Object.entries(data).forEach applied to entries i, i+1, ...
RECURSIVE GroupFrom(_, _, _)
GroupFrom(body, i, acc) ==
    IF i > Len(body) THEN acc
    ELSE LET parsed == ParseDivisionKey(body[i].key)
             sortedPolls == SortedPolls(body[i].polls)
             entry == [key |-> GroupKey(parsed.subject, parsed.pollType),
                       subject |-> parsed.subject,
                       pollType |-> parsed.pollType,
                       polls |-> sortedPolls,
                       colorMap |-> body[i].color_map]
         IN  GroupFrom(body, i + 1,
                       [grouped |-> MapSet(acc.grouped, entry),
                        allPolls |-> acc.allPolls \o sortedPolls])

GroupDivisions(body) == GroupFrom(body, 1, [grouped |-> <<>>, allPolls |-> <<>>])

ERROR_MESSAGE == "Failed to fetch polls. Please try again."

\* the key under which the service returns the division (subject, poll type)
DivisionKey(subject, pollType) == subject \o <<"_">> \o pollType

S_A == <<"A">>

S_A_b == <<"A", "_", "b">>

T_c == <<"c">>

T_b_c == <<"b", "_", "c">>

T_bc == <<"b", "-", "c">>

\* the divisions a response may hold
Divisions ==
    {[subject |-> S_A, poll_type |-> T_c],
     [subject |-> S_A, poll_type |-> T_b_c],
     [subject |-> S_A, poll_type |-> T_bc],
     [subject |-> S_A_b, poll_type |-> T_c]}

D_0101 == <<"2", "0", "2", "4", "-", "0", "1", "-", "0", "1">>

D_0201 == <<"2", "0", "2", "4", "-", "0", "2", "-", "0", "1">>

D_0301 == <<"2", "0", "2", "4", "-", "0", "3", "-", "0", "1">>

Dates == {D_0101, D_0201, D_0301}

Queries == {<<>>, <<" ">>, <<"q">>}

\* the polls n, n+1, ..., count of a division whose first poll has the
\* id offset + 1; the poll with id k ends on ends[k]
RECURSIVE PollsFrom(_, _, _, _, _)
PollsFrom(div, ends, offset, n, count) ==
    IF n > count THEN <<>>
    ELSE <<[id |-> offset + n,
            subject |-> div.subject,
            poll_type |-> div.poll_type,
            end_date |-> ends[offset + n],
            sample_size |-> 1000,
            answers |-> <<>>]>>
         \o PollsFrom(div, ends, offset, n + 1, count)

RECURSIVE BodyFrom(_, _, _, _, _)
BodyFrom(divs, lens, ends, i, offset) ==
    IF i > Len(divs) THEN <<>>
    ELSE <<[division |-> divs[i],
            key |-> DivisionKey(divs[i].subject, divs[i].poll_type),
            polls |-> PollsFrom(divs[i], ends, offset, 1, lens[i]),
            color_map |-> NoColors]>>
         \o BodyFrom(divs, lens, ends, i + 1, offset + lens[i])

\* the response body with the given divisions, whose i-th division holds
\* the next lens[i] of the end dates; poll ids are unique in the response
MakeBody(divs, lens, ends) == BodyFrom(divs, lens, ends, 1, 0)

\* the keys of a JSON object are distinct
DistinctKeys(divs) ==
    \A i, j \in 1..Len(divs) :
       i # j => DivisionKey(divs[i].subject, divs[i].poll_type)
                  # DivisionKey(divs[j].subject, divs[j].poll_type)

InitPage ==
    /\ PageIdle
    /\ BackIdle
    /\ NormIdle
    /\ ViewIdle

\* onChange of the search input
SetQuery ==
    /\ \E q \in Queries : query' = q
    /\ UNCHANGED <<polls, loading, error, pollsGrouped, activeTab, fetching, data>>
    /\ UNCHANGED <<normVars, viewVars, backVars>>

\* handleSearch up to its await, callable while a search is loading
SubmitSearchWhileLoading ==
    /\ IF Trim(query) = <<>>
       THEN UNCHANGED <<polls, loading, error, pollsGrouped, fetching, data>>
       ELSE /\ loading' = TRUE
            /\ error' = ""
            /\ polls' = <<>>
            /\ pollsGrouped' = <<>>
            /\ fetching' = Append(fetching, query)
            /\ data' = NoData
    /\ UNCHANGED <<query, activeTab>>
    /\ UNCHANGED <<normVars, viewVars, backVars>>

\* handleSearch up to its await, without the reset of polls and pollsGrouped
SubmitSearchKeepsResults ==
    /\ ~loading
    /\ IF Trim(query) = <<>>
       THEN UNCHANGED <<polls, loading, error, pollsGrouped, fetching, data>>
       ELSE /\ loading' = TRUE
            /\ error' = ""
            /\ fetching' = Append(fetching, query)
            /\ data' = NoData
            /\ UNCHANGED <<polls, pollsGrouped>>
    /\ UNCHANGED <<query, activeTab>>
    /\ UNCHANGED <<normVars, viewVars, backVars>>

\* handleSearch up to its await, without the early return on a blank query
SubmitSearchBlankQuery ==
    /\ ~loading
    /\ loading' = TRUE
    /\ error' = ""
    /\ polls' = <<>>
    /\ pollsGrouped' = <<>>
    /\ fetching' = Append(fetching, query)
    /\ data' = NoData
    /\ UNCHANGED <<query, activeTab>>
    /\ UNCHANGED <<normVars, viewVars, backVars>>

\* handleSearch up to its await; the submit button is disabled while loading
SubmitSearch ==
    /\ ~loading
    /\ IF Trim(query) = <<>>
       THEN UNCHANGED <<polls, loading, error, pollsGrouped, fetching, data>>
       ELSE /\ loading' = TRUE
            /\ error' = ""
            /\ polls' = <<>>
            /\ pollsGrouped' = <<>>
            /\ fetching' = Append(fetching, query)
            /\ data' = NoData
    /\ UNCHANGED <<query, activeTab>>
    /\ UNCHANGED <<normVars, viewVars, backVars>>

\* handleSearch after its await for an OK response, leaving activeTab as it
\* was
FetchSucceedsKeepsTab ==
    /\ \E r \in 1..Len(fetching) :
          /\ \E divs \in SeqsUpTo(Divisions, MaxDivisions) :
                /\ DistinctKeys(divs)
                /\ \E lens \in [1..Len(divs) -> 0..MaxDivPolls] :
                      /\ SumSeq(lens) <= MaxRespPolls
                      /\ \E ends \in [1..SumSeq(lens) -> Dates] :
                         \E body \in {MakeBody(divs, lens, ends)} :
                            \E result \in {GroupDivisions(body)} :
                                /\ data' = [received |-> TRUE, body |-> body,
                                            err |-> "none", query |-> fetching[r]]
                                /\ polls' = result.allPolls
                                /\ pollsGrouped' = result.grouped
                                /\ activeTab' = activeTab
          /\ fetching' = DeleteAt(fetching, r)
    /\ loading' = FALSE
    /\ UNCHANGED <<query, error>>
    /\ UNCHANGED <<normVars, viewVars, backVars>>

\* handleSearch after its await, for an OK response whose body is an object
\* of divisions; r is the awaited fetch that settles
FetchSucceeds ==
    /\ \E r \in 1..Len(fetching) :
          /\ \E divs \in SeqsUpTo(Divisions, MaxDivisions) :
                /\ DistinctKeys(divs)
                /\ \E lens \in [1..Len(divs) -> 0..MaxDivPolls] :
                      /\ SumSeq(lens) <= MaxRespPolls
                      /\ \E ends \in [1..SumSeq(lens) -> Dates] :
                         \E body \in {MakeBody(divs, lens, ends)} :
                            \E result \in {GroupDivisions(body)} :
                                /\ data' = [received |-> TRUE, body |-> body,
                                            err |-> "none", query |-> fetching[r]]
                                /\ polls' = result.allPolls
                                /\ pollsGrouped' = result.grouped
                                /\ activeTab' = IF Len(result.grouped) > 0
                                                   /\ result.grouped[1].key # <<>>
                                                THEN result.grouped[1].key
                                                ELSE activeTab
          /\ fetching' = DeleteAt(fetching, r)
    /\ loading' = FALSE
    /\ UNCHANGED <<query, error>>
    /\ UNCHANGED <<normVars, viewVars, backVars>>

\* what can throw in the try block: fetch rejects, the status is not OK,
\* the body is not JSON, or the JSON is not an object of divisions
FailureCauses == {"network", "status", "body", "shape"}

\* the catch block showing the exception itself
FetchFailsWithDetail ==
    /\ \E r \in 1..Len(fetching) :
          /\ \E cause \in FailureCauses :
                /\ error' = cause
                /\ data' = [received |-> FALSE, body |-> <<>>,
                            err |-> cause, query |-> fetching[r]]
          /\ fetching' = DeleteAt(fetching, r)
    /\ loading' = FALSE
    /\ UNCHANGED <<query, polls, pollsGrouped, activeTab>>
    /\ UNCHANGED <<normVars, viewVars, backVars>>

\* the catch block, with loading reset at the end of the try block instead
\* of in finally
FetchFailsKeepsLoading ==
    /\ \E r \in 1..Len(fetching) :
          /\ \E cause \in FailureCauses :
                /\ error' = ERROR_MESSAGE
                /\ data' = [received |-> FALSE, body |-> <<>>,
                            err |-> cause, query |-> fetching[r]]
          /\ fetching' = DeleteAt(fetching, r)
    /\ UNCHANGED loading
    /\ UNCHANGED <<query, polls, pollsGrouped, activeTab>>
    /\ UNCHANGED <<normVars, viewVars, backVars>>

\* handleSearch after its await, when something in the try block throws:
\* the catch block and finally; data.err keeps the exception it logs to the
\* console
FetchFails ==
    /\ \E r \in 1..Len(fetching) :
          /\ \E cause \in FailureCauses :
                /\ error' = ERROR_MESSAGE
                /\ data' = [received |-> FALSE, body |-> <<>>,
                            err |-> cause, query |-> fetching[r]]
          /\ fetching' = DeleteAt(fetching, r)
    /\ loading' = FALSE
    /\ UNCHANGED <<query, polls, pollsGrouped, activeTab>>
    /\ UNCHANGED <<normVars, viewVars, backVars>>

\* onClick of a tab button; the tabs are rendered when there are polls
SetActiveTab ==
    /\ Len(polls) > 0
    /\ \E i \in 1..Len(pollsGrouped) : activeTab' = pollsGrouped[i].key
    /\ UNCHANGED <<query, polls, loading, error, pollsGrouped, fetching, data>>
    /\ UNCHANGED <<normVars, viewVars, backVars>>

\* {error && ...}: the error banner is rendered
ErrorBannerShown == error # ""

\* {polls.length > 0 && ...}: the tabs and the active division are rendered
PollsShown == Len(polls) > 0

\* {!loading && polls.length === 0 && query && !error && ...}
NoPollsFoundShown == ~loading /\ Len(polls) = 0 /\ query # <<>> /\ error = ""

NextPage ==
    \/ SetQuery
    \/ SubmitSearch
    \/ FetchSucceeds
    \/ FetchFails
    \/ SetActiveTab

SpecPage == InitPage /\ [][NextPage]_vars

\* an awaited fetch settles, fulfilled or rejected, and the continuation of
\* handleSearch runs: the steps of FetchSucceeds and FetchFails
RequestSettles == \E r \in 1..Len(fetching) : fetching' = DeleteAt(fetching, r)

\* the page with every awaited fetch settling
SpecPageFair == InitPage /\ [][NextPage]_vars /\ WF_fetching(RequestSettles)

C3_Idempotent ==
    npc = "done" => rekey = key

C3_Witness ==
    /\ npc = "done"
    /\ choice = <<" ", ".", "a">>
    /\ key = <<"a">>
    /\ rekey = <<"a">>

(***************************************************************************)
(* Properties of the choice clustering                                     *)
(***************************************************************************)
\* the answers scanned whose label has the canonical key k, in scan order
AnswersWithKey(pollList, k) ==
    SelectSeq(AllAnswers(pollList), LAMBDA a : normalizeChoice(a.choice) = k)

LabelsOf(answers) == [i \in 1..Len(answers) |-> answers[i].choice]

PctsOf(answers) == [i \in 1..Len(answers) |-> answers[i].pct]

\* the claim made of one choiceStats map built from the polls
ClusteredByKey(stats, pollList) ==
    LET answers == AllAnswers(pollList)
    IN  /\ \A a \in 1..Len(answers) :
              Cardinality({i \in 1..Len(stats) :
                  stats[i].normalized = normalizeChoice(answers[a].choice)}) = 1
        /\ \A i \in 1..Len(stats) :
              /\ stats[i].originalNames =
                     LabelsOf(AnswersWithKey(pollList, stats[i].normalized))
              /\ stats[i].count = Len(AnswersWithKey(pollList, stats[i].normalized))
              /\ stats[i].count >= 1
        /\ SumSeq([i \in 1..Len(stats) |-> stats[i].count]) = Len(answers)

\* C4: every answer is counted in exactly one cluster, a cluster holds
\* exactly the answers whose canonical key is the cluster's key, and the
\* contribution counts of all clusters sum to the number of answers scanned.
C4_ClustersPartitionAnswers ==
    /\ rendered # "none" => ClusteredByKey(choiceStats, props.polls)
    /\ rendered = "table" => ClusteredByKey(table.choiceStats, props.polls)

C4_Witness ==
    /\ rendered = "table"
    /\ Len(AllAnswers(props.polls)) = 3
    /\ Len(choiceStats) = 2
    /\ \E i \in 1..2 : /\ choiceStats[i].normalized = L_Approve
                        /\ choiceStats[i].count = 2
                        /\ L_ApproveDot \in Range(choiceStats[i].originalNames)
                        /\ L_Approve \in Range(choiceStats[i].originalNames)

\* C1 as stated: the display name of a cluster is the shortest original
\* label observed in it, the first seen among equally short ones, and so
\* is always one of the original labels mapped to the cluster.
ShortestOriginal(stats) ==
    \A i \in 1..Len(stats) :
        LET names == stats[i].originalNames
        IN  \E k \in 1..Len(names) :
               /\ stats[i].displayName = names[k]
               /\ \A j \in 1..Len(names) : Len(names[k]) <= Len(names[j])
               /\ \A j \in 1..(k - 1) : Len(names[k]) < Len(names[j])

C1_DisplayNameIsShortestOriginal ==
    /\ rendered # "none" => ShortestOriginal(choiceStats)
    /\ rendered = "table" => ShortestOriginal(table.choiceStats)

\* C5: the average of a returned choice is the sum of the percentages of
\* the answers of its cluster divided by their number, whatever the sample
\* sizes of the polls.
C5_AverageIsUnweightedMean ==
    rendered # "none" =>
        /\ Len(choices) = Len(choiceStats)
        /\ \A c \in 1..Len(choices) :
              LET members == AnswersWithKey(props.polls,
                                 normalizeChoice(choices[c].displayName))
              IN  /\ Len(members) >= 1
                  /\ choices[c].average.den >= 1
                  /\ choices[c].average.num * Len(members) =
                        SumSeq(PctsOf(members)) * choices[c].average.den

\* Approve 45 in a poll of 500 and Approve. 44 in a poll of 1000 give one
\* choice with average 89 / 2 = 44.5
C5_Witness ==
    /\ rendered # "none"
    /\ Len(props.polls) = 2
    /\ props.polls[1].sample_size = 500
    /\ props.polls[2].sample_size = 1000
    /\ props.polls[1].answers = <<[choice |-> L_Approve, pct |-> 45]>>
    /\ props.polls[2].answers = <<[choice |-> L_ApproveDot, pct |-> 44]>>
    /\ Len(choices) = 1
    /\ choices[1].displayName = L_Approve
    /\ choices[1].average.num * 2 = 89 * choices[1].average.den

(***************************************************************************)
(* Properties of the colours                                               *)
(***************************************************************************)
\* no colour-map entry, no sentiment rule and no generic-ballot rule
\* applies to the choice
NoColourRule(pollType, name, colorMap) ==
    LET t == ToLowerCase(pollType)
        n == ToLowerCase(normalizeChoice(name))
    IN  /\ OrElse(ColorOf(colorMap, name), Undefined) = Undefined
        /\ ~(/\ t \in {STR_approval, STR_favorability}
             /\ n \in {STR_approve, STR_favorable, STR_disapprove, STR_unfavorable})
        /\ ~(t = STR_generic_ballot /\ n \in {STR_dem, STR_rep})

\* C10 as stated: a choice that matches no colour rule is black in the
\* choices summary and charts, in the table cells and in the winner column.
C10_FallbackIsBlackEverywhere ==
    /\ rendered # "none" =>
          \A c \in 1..Len(choices) :
             NoColourRule(props.pollType, choices[c].displayName, props.colorMap)
                => choices[c].color = BLACK
    /\ rendered = "table" =>
          \A r \in 1..Len(table.rows) :
             /\ \A c \in 1..Len(table.rows[r].cells) :
                   (/\ ~table.rows[r].cells[c].pct.isNull
                    /\ NoColourRule(props.pollType,
                                    table.uniqueChoices[c].displayName,
                                    props.colorMap))
                      => table.rows[r].cells[c].color = BLACK
             /\ (/\ table.rows[r].result.text = "winner"
                 /\ NoColourRule(props.pollType, table.rows[r].result.winner,
                                 props.colorMap))
                   => table.rows[r].result.color = BLACK

(***************************************************************************)
(* Properties of the grouping done by handleSearch                         *)
(***************************************************************************)
IdsOf(pollList) == {pollList[i].id : i \in 1..Len(pollList)}

EndDatesOf(pollList) == [i \in 1..Len(pollList) |-> pollList[i].end_date]

\* C6 as stated: after a successful search the groups of pollsGrouped
\* partition the polls of the response: every poll received is in a group,
\* and no poll is in two groups or twice in one.
C6_GroupsPartitionResponse ==
    data.received =>
        /\ UNION {IdsOf(pollsGrouped[g].polls) : g \in 1..Len(pollsGrouped)}
              = UNION {IdsOf(data.body[d].polls) : d \in 1..Len(data.body)}
        /\ \A g, h \in 1..Len(pollsGrouped) :
              g # h => IdsOf(pollsGrouped[g].polls) \cap IdsOf(pollsGrouped[h].polls) = {}
        /\ \A g \in 1..Len(pollsGrouped) :
              Cardinality(IdsOf(pollsGrouped[g].polls)) = Len(pollsGrouped[g].polls)

\* C7 as stated: the key <subject>_<poll-type> of every division is parsed
\* back into exactly that subject and that poll type, and different
\* divisions get different group keys, so that every division of the
\* response has its own group.
C7_KeyParsedBackToDivision ==
    data.received =>
        /\ Len(pollsGrouped) = Len(data.body)
        /\ \A d \in 1..Len(data.body) :
              /\ pollsGrouped[d].subject = data.body[d].division.subject
              /\ pollsGrouped[d].pollType = data.body[d].division.poll_type

\* C8: within every group shown the polls are in descending order of end
\* date: a poll never precedes one with a later end date.
C8_GroupsSortedByEndDateDesc ==
    data.received =>
        \A g \in 1..Len(pollsGrouped) :
           \A i, j \in 1..Len(pollsGrouped[g].polls) :
              i < j => DateGetTime(pollsGrouped[g].polls[i].end_date)
                         >= DateGetTime(pollsGrouped[g].polls[j].end_date)

\* end dates 2024-01-01, 2024-03-01, 2024-02-01 come out as 03-01, 02-01, 01-01
C8_Witness ==
    /\ data.received
    /\ Len(data.body) = 1
    /\ EndDatesOf(data.body[1].polls) = <<D_0101, D_0301, D_0201>>
    /\ Len(pollsGrouped) = 1
    /\ EndDatesOf(pollsGrouped[1].polls) = <<D_0301, D_0201, D_0101>>

\* the position of the poll with the given id in a list
PositionOf(pollList, id) == CHOOSE i \in 1..Len(pollList) : pollList[i].id = id

\* sorted holds exactly the polls of received, each once, and polls with
\* equal end dates are in the order they have in received
StablePermutation(sorted, received) ==
    /\ Len(sorted) = Len(received)
    /\ \A i \in 1..Len(received) :
          Cardinality({j \in 1..Len(sorted) : sorted[j] = received[i]}) = 1
    /\ \A i, j \in 1..Len(sorted) :
          (i < j /\ DateGetTime(sorted[i].end_date) = DateGetTime(sorted[j].end_date))
             => PositionOf(received, sorted[i].id) < PositionOf(received, sorted[j].id)

\* the polls that handleSearch appended to allPolls for the d-th division
SegmentOf(d) ==
    LET before == SumSeq([e \in 1..(d - 1) |-> Len(data.body[e].polls)])
    IN  SubSeq(polls, before + 1, before + Len(data.body[d].polls))

\* C9: the sorted list of every division is a stable permutation of the
\* polls received for it: the same polls, each once, with polls of equal
\* end date in the order in which they were received.
C9_SortIsStablePermutation ==
    data.received =>
        /\ Len(polls) = SumSeq([d \in 1..Len(data.body) |-> Len(data.body[d].polls)])
        /\ \A d \in 1..Len(data.body) : StablePermutation(SegmentOf(d), data.body[d].polls)
        /\ \A g \in 1..Len(pollsGrouped) :
              \E d \in 1..Len(data.body) :
                 StablePermutation(pollsGrouped[g].polls, data.body[d].polls)

\* two polls that end on 2024-01-01 stay in their order behind a later one
C9_Witness ==
    /\ data.received
    /\ Len(data.body) = 1
    /\ EndDatesOf(data.body[1].polls) = <<D_0101, D_0301, D_0101>>
    /\ Len(pollsGrouped) = 1
    /\ [i \in 1..3 |-> pollsGrouped[1].polls[i].id] = <<2, 1, 3>>

(***************************************************************************)
(* The colour map of a division as the service that answers GET /api/polls *)
(* builds it (ChoiceNormalizer.cluster and ColorAssigner.assign_colors),   *)
(* and the views rendered from it                                          *)
(***************************************************************************)
\* one answer scanned by cluster: the display name of a cluster is the
\* shortest original label seen, the earliest among equally short ones
ClusterAnswer(clusters, answer) ==
    LET normalized == normalizeChoice(answer.choice)
        idx == EntryIndex(clusters, normalized)
        old == IF idx = 0
               THEN [normalized |-> normalized, total |-> 0, count |-> 0,
                     displayName |-> answer.choice, originalNames |-> <<>>]
               ELSE clusters[idx]
        new == [old EXCEPT
                  !.total = @ + answer.pct,
                  !.count = @ + 1,
                  !.originalNames = Append(@, answer.choice),
                  !.displayName = IF Len(answer.choice) < Len(@)
                                  THEN answer.choice ELSE @]
    IN  IF idx = 0 THEN Append(clusters, new) ELSE [clusters EXCEPT ![idx] = new]

RECURSIVE ClusterFrom(_, _, _)
ClusterFrom(answers, i, clusters) ==
    IF i > Len(answers) THEN clusters
    ELSE ClusterFrom(answers, i + 1, ClusterAnswer(clusters, answers[i]))

\* cluster(polls in a Division): every answer scanned once
cluster(pollList) == ClusterFrom(AllAnswers(pollList), 1, <<>>)

PARTIES == {"Democrat", "Republican", "Independent", "Libertarian",
            "Green", "Other", "Unknown"}

\* the reserved colour range of a party, one shade per candidate
PartyShades(party) ==
    CASE party = "Democrat"    -> <<"democrat-1", "democrat-2", "democrat-3", "democrat-4">>
      [] party = "Republican"  -> <<"republican-1", "republican-2", "republican-3", "republican-4">>
      [] party = "Independent" -> <<"independent-1", "independent-2", "independent-3", "independent-4">>
      [] party = "Libertarian" -> <<"libertarian-1", "libertarian-2", "libertarian-3", "libertarian-4">>
      [] party = "Green"       -> <<"green-1", "green-2", "green-3", "green-4">>
      [] party = "Other"       -> <<"other-1", "other-2", "other-3", "other-4">>

\* the colour of the i-th cluster: the first rule that matches
ClusterColour(pollType, clusters, parties, i) ==
    LET t == ToLowerCase(pollType)
        n == ToLowerCase(clusters[i].normalized)
        party == parties[clusters[i].displayName]
        \* the candidates of the same party encountered up to this one
        same == {j \in 1..i : parties[clusters[j].displayName] = party}
    IN  IF t \in {STR_approval, STR_favorability} /\ n \in {STR_approve, STR_favorable}
        THEN GREEN
        ELSE IF t \in {STR_approval, STR_favorability}
                /\ n \in {STR_disapprove, STR_unfavorable}
        THEN ORANGE
        ELSE IF t = STR_generic_ballot /\ n = STR_dem THEN BLUE
        ELSE IF t = STR_generic_ballot /\ n = STR_rep THEN RED
        ELSE IF party # "Unknown" THEN PartyShades(party)[Cardinality(same)]
        ELSE BLACK

\* assign_colors: a mapping with one entry for the display name of every
\* cluster
assign_colors(pollType, clusters, parties) ==
    [name \in {clusters[i].displayName : i \in 1..Len(clusters)} |->
        ClusterColour(pollType, clusters, parties,
                      CHOOSE i \in 1..Len(clusters) : clusters[i].displayName = name)]

\* the props of a division whose colour map was assigned from its polls
InitDivision(labels, pcts, types, inputParties) ==
    /\ \E type \in types, parties \in [labels -> inputParties] :
          \E k \in 0..MaxPolls :
             \E lens \in [1..k -> 0..MaxAnswers] :
                /\ SumSeq(lens) <= MaxTotalAnswers
                /\ \E flat \in [1..SumSeq(lens) -> Answers(labels, pcts)] :
                      \E pollList \in {PollListFrom(lens, [i \in 1..k |-> 1000],
                                                    flat, type, 1, 0)} :
                         props = [polls |-> pollList, pollType |-> type,
                                  colorMap |-> assign_colors(type, cluster(pollList),
                                                             parties)]
    /\ choiceStats = <<>>
    /\ choices = <<>>
    /\ table = [choiceStats |-> <<>>, uniqueChoices |-> <<>>, rows |-> <<>>]
    /\ rendered = "none"
    /\ NormIdle
    /\ PageIdle
    /\ BackIdle

InitAssigned ==
    InitDivision({L_Approve, L_ApproveDot, L_Other}, {45},
                 {STR_approval, STR_general}, {"Democrat", "Unknown"})

SpecAssigned == InitAssigned /\ [][NextView]_vars

(***************************************************************************)
(* PartyResolver: resolve(candidate_name) with the process-wide cache and  *)
(* the per-name lock                                                       *)
(***************************************************************************)
\* what the external lookup can come to: a party, or no usable answer
LookupOutcomes == {"Democrat", "Republican", "failed", "timeout", "unparseable"}

LookupFailures == {"failed", "timeout", "unparseable"}

\* the party a lookup resolves to
ResolvedParty(outcome) == IF outcome \in PARTIES THEN outcome ELSE "Unknown"

\* a caller calls resolve(n)
Resolve(c, n) ==
    /\ callers[c].pc = "idle"
    /\ callers' = [callers EXCEPT ![c] = [@ EXCEPT !.pc = "check", !.name = n]]
    /\ UNCHANGED <<partyCache, nameLock, lookups>>
    /\ UNCHANGED <<normVars, viewVars, pageVars, pipelineVars>>

\* resolve checks the cache first
CheckCache(c) ==
    /\ callers[c].pc = "check"
    /\ LET n == callers[c].name
       IN  IF partyCache[n] # Absent
           THEN callers' = [callers EXCEPT ![c] =
                               [@ EXCEPT !.pc = "returned", !.result = partyCache[n]]]
           ELSE callers' = [callers EXCEPT ![c] =
                               [@ EXCEPT !.pc = "wait", !.missed = TRUE]]
    /\ UNCHANGED <<partyCache, nameLock, lookups>>
    /\ UNCHANGED <<normVars, viewVars, pageVars, pipelineVars>>

\* on a miss the caller acquires the lock of the name
AcquireLock(c) ==
    /\ callers[c].pc = "wait"
    /\ nameLock[callers[c].name] = 0
    /\ nameLock' = [nameLock EXCEPT ![callers[c].name] = c]
    /\ callers' = [callers EXCEPT ![c] = [@ EXCEPT !.pc = "locked"]]
    /\ UNCHANGED <<partyCache, lookups>>
    /\ UNCHANGED <<normVars, viewVars, pageVars, pipelineVars>>

\* the holder of the lock issues the lookup whatever the cache holds by now
StartLookupNoRecheck(c) ==
    /\ callers[c].pc = "locked"
    /\ LET n == callers[c].name
       IN  /\ lookups' = [lookups EXCEPT ![n] =
                             [@ EXCEPT !.issued = @ + 1, !.outstanding = @ + 1]]
           /\ callers' = [callers EXCEPT ![c] = [@ EXCEPT !.pc = "lookup"]]
           /\ UNCHANGED nameLock
    /\ UNCHANGED partyCache
    /\ UNCHANGED <<normVars, viewVars, pageVars, pipelineVars>>

\* the holder of the lock looks an Unknown entry up again
StartLookupRefreshUnknown(c) ==
    /\ callers[c].pc = "locked"
    /\ LET n == callers[c].name
       IN  IF partyCache[n] \notin {Absent, "Unknown"}
           THEN /\ callers' = [callers EXCEPT ![c] =
                                  [@ EXCEPT !.pc = "returned", !.result = partyCache[n]]]
                /\ nameLock' = [nameLock EXCEPT ![n] = 0]
                /\ UNCHANGED lookups
           ELSE /\ lookups' = [lookups EXCEPT ![n] =
                                  [@ EXCEPT !.issued = @ + 1, !.outstanding = @ + 1]]
                /\ callers' = [callers EXCEPT ![c] = [@ EXCEPT !.pc = "lookup"]]
                /\ UNCHANGED nameLock
    /\ UNCHANGED partyCache
    /\ UNCHANGED <<normVars, viewVars, pageVars, pipelineVars>>

\* the holder of the lock: a caller that waited for the lookup of another
\* finds its result in the cache; the first one issues the lookup
StartLookup(c) ==
    /\ callers[c].pc = "locked"
    /\ LET n == callers[c].name
       IN  IF partyCache[n] # Absent
           THEN /\ callers' = [callers EXCEPT ![c] =
                                  [@ EXCEPT !.pc = "returned", !.result = partyCache[n]]]
                /\ nameLock' = [nameLock EXCEPT ![n] = 0]
                /\ UNCHANGED lookups
           ELSE /\ lookups' = [lookups EXCEPT ![n] =
                                  [@ EXCEPT !.issued = @ + 1, !.outstanding = @ + 1]]
                /\ callers' = [callers EXCEPT ![c] = [@ EXCEPT !.pc = "lookup"]]
                /\ UNCHANGED nameLock
    /\ UNCHANGED partyCache
    /\ UNCHANGED <<normVars, viewVars, pageVars, pipelineVars>>

\* a lookup without a usable answer resolves to Unknown and leaves the
\* cache as it is
LookupCompletesFailureNotCached(c) ==
    /\ callers[c].pc = "lookup"
    /\ \E outcome \in LookupOutcomes :
          LET n == callers[c].name
              party == ResolvedParty(outcome)
          IN  /\ partyCache' = IF outcome \in LookupFailures THEN partyCache
                                ELSE [partyCache EXCEPT ![n] = party]
              /\ lookups' = [lookups EXCEPT ![n] =
                                [@ EXCEPT !.outstanding = @ - 1, !.outcome = outcome]]
              /\ nameLock' = [nameLock EXCEPT ![n] = 0]
              /\ callers' = [callers EXCEPT ![c] =
                                [@ EXCEPT !.pc = "returned", !.result = party]]
    /\ UNCHANGED <<normVars, viewVars, pageVars, pipelineVars>>

\* the lookup ends, with a party or without a usable answer: the resolved
\* party is cached, the lock released and the party returned
LookupCompletes(c) ==
    /\ callers[c].pc = "lookup"
    /\ \E outcome \in LookupOutcomes :
          LET n == callers[c].name
              party == ResolvedParty(outcome)
          IN  /\ partyCache' = [partyCache EXCEPT ![n] = party]
              /\ lookups' = [lookups EXCEPT ![n] =
                                [@ EXCEPT !.outstanding = @ - 1, !.outcome = outcome]]
              /\ nameLock' = [nameLock EXCEPT ![n] = 0]
              /\ callers' = [callers EXCEPT ![c] =
                                [@ EXCEPT !.pc = "returned", !.result = party]]
    /\ UNCHANGED <<normVars, viewVars, pageVars, pipelineVars>>

InitResolver ==
    /\ ResolverIdle
    /\ PipelineIdle
    /\ NormIdle
    /\ ViewIdle
    /\ PageIdle

NextResolver ==
    \/ \E c \in Callers, n \in Names : Resolve(c, n)
    \/ \E c \in Callers : CheckCache(c)
    \/ \E c \in Callers : AcquireLock(c)
    \/ \E c \in Callers : StartLookup(c)
    \/ \E c \in Callers : LookupCompletes(c)

SpecResolver == InitResolver /\ [][NextResolver]_vars

(***************************************************************************)
(* PipelineOrchestrator: process(query), one task for each Division        *)
(***************************************************************************)
\* the Division keys the provider's polls can fall into
DivisionKeys == {"Biden_approval", "Trump_favorability", "generic_generic-ballot"}

\* the stages of the task of one Division, in order
TaskStages == <<"cluster", "reconcile", "resolve", "assign", "done">>

StageAfter(stage) ==
    TaskStages[1 + CHOOSE i \in 1..(Len(TaskStages) - 1) : TaskStages[i] = stage]

Running(task) == task.stage \notin {"done", "failed"}

\* process(query) is called
StartRequest ==
    /\ request.pc = "idle"
    /\ request' = [request EXCEPT !.pc = "interpret"]
    /\ UNCHANGED <<tasks, response>>
    /\ UNCHANGED <<normVars, viewVars, pageVars, resolverVars>>

\* QueryInterpreter: a filter, or the keyword fallback when the output is
\* malformed, empty or late; the request goes on either way
Interpret ==
    /\ request.pc = "interpret"
    /\ \E mode \in {"filter", "keywords"} :
          request' = [request EXCEPT !.pc = "fetch"]
    /\ UNCHANGED <<tasks, response>>
    /\ UNCHANGED <<normVars, viewVars, pageVars, resolverVars>>

\* PollFetcher and DivisionGrouper: the polls fetched fall into some
\* Divisions, each of which gets a task
FetchAndGroup ==
    /\ request.pc = "fetch"
    /\ \E fetched \in SUBSET DivisionKeys :
          /\ Cardinality(fetched) <= MaxDivisions
          /\ tasks' = [d \in fetched |-> [stage |-> "cluster", degraded |-> FALSE]]
    /\ request' = [request EXCEPT !.pc = "process"]
    /\ UNCHANGED response
    /\ UNCHANGED <<normVars, viewVars, pageVars, resolverVars>>

\* PollFetcher: a network or 5xx error; the fetch is tried again, and
\* when the retries are used up the whole request fails
FetchUnavailable ==
    /\ request.pc = "fetch"
    /\ IF request.attempts < MaxFetchRetries
       THEN /\ request' = [request EXCEPT !.attempts = @ + 1]
            /\ UNCHANGED response
       ELSE /\ request' = [request EXCEPT !.pc = "returned"]
            /\ response' = [status |-> "error", divisions |-> {}]
    /\ UNCHANGED tasks
    /\ UNCHANGED <<normVars, viewVars, pageVars, resolverVars>>

\* the task of a Division completes its stage
TaskStep(d) ==
    /\ request.pc = "process"
    /\ Running(tasks[d])
    /\ tasks' = [tasks EXCEPT ![d] = [@ EXCEPT !.stage = StageAfter(@)]]
    /\ UNCHANGED <<request, response>>
    /\ UNCHANGED <<normVars, viewVars, pageVars, resolverVars>>

\* NameReconciler fails or times out, or a party lookup fails: the stage
\* completes with the unmerged clusters, or with Unknown
TaskDegrades(d) ==
    /\ request.pc = "process"
    /\ tasks[d].stage \in {"reconcile", "resolve"}
    /\ tasks' = [tasks EXCEPT ![d] = [stage |-> StageAfter(@.stage), degraded |-> TRUE]]
    /\ UNCHANGED <<request, response>>
    /\ UNCHANGED <<normVars, viewVars, pageVars, resolverVars>>

\* an uncaught failure in the task of a Division
TaskFails(d) ==
    /\ request.pc = "process"
    /\ Running(tasks[d])
    /\ tasks' = [tasks EXCEPT ![d] = [@ EXCEPT !.stage = "failed"]]
    /\ UNCHANGED <<request, response>>
    /\ UNCHANGED <<normVars, viewVars, pageVars, resolverVars>>

\* the tasks are joined; a failed task fails the request
AssembleAbortsOnFailure ==
    /\ request.pc = "process"
    /\ \A d \in DOMAIN tasks : ~Running(tasks[d])
    /\ response' = IF \E d \in DOMAIN tasks : tasks[d].stage = "failed"
                   THEN [status |-> "error", divisions |-> {}]
                   ELSE [status |-> "ok", divisions |-> DOMAIN tasks]
    /\ request' = [request EXCEPT !.pc = "returned"]
    /\ UNCHANGED tasks
    /\ UNCHANGED <<normVars, viewVars, pageVars, resolverVars>>

\* the tasks are joined and the response assembled from the Divisions
\* whose task completed
Assemble ==
    /\ request.pc = "process"
    /\ \A d \in DOMAIN tasks : ~Running(tasks[d])
    /\ response' = [status |-> "ok",
                    divisions |-> {d \in DOMAIN tasks : tasks[d].stage = "done"}]
    /\ request' = [request EXCEPT !.pc = "returned"]
    /\ UNCHANGED tasks
    /\ UNCHANGED <<normVars, viewVars, pageVars, resolverVars>>

InitPipeline ==
    /\ PipelineIdle
    /\ ResolverIdle
    /\ NormIdle
    /\ ViewIdle
    /\ PageIdle

NextPipeline ==
    \/ StartRequest
    \/ Interpret
    \/ FetchAndGroup
    \/ FetchUnavailable
    \/ \E d \in DOMAIN tasks : TaskStep(d)
    \/ \E d \in DOMAIN tasks : TaskDegrades(d)
    \/ \E d \in DOMAIN tasks : TaskFails(d)
    \/ Assemble

SpecPipeline == InitPipeline /\ [][NextPipeline]_vars

(***************************************************************************)
(* Properties of the colour rules of the winner column                     *)
(***************************************************************************)
\* the colour the sentiment rule gives a label, Undefined when the rule
\* does not apply to it
SentimentColour(pollType, name) ==
    LET n == ToLowerCase(normalizeChoice(name))
    IN  IF ToLowerCase(pollType) \notin {STR_approval, STR_favorability} THEN Undefined
        ELSE IF n \in {STR_approve, STR_favorable} THEN GREEN
        ELSE IF n \in {STR_disapprove, STR_unfavorable} THEN ORANGE
        ELSE Undefined

\* the colour the generic-ballot rule gives a label, Undefined when the
\* rule does not apply to it
BallotColour(pollType, name) ==
    LET n == ToLowerCase(normalizeChoice(name))
    IN  IF ToLowerCase(pollType) # STR_generic_ballot THEN Undefined
        ELSE IF n = STR_dem THEN BLUE
        ELSE IF n = STR_rep THEN RED
        ELSE Undefined

HasColourMapEntry(name) ==
    OrElse(ColorOf(props.colorMap, name), Undefined) # Undefined

\* C11 as stated: in a poll of type approval or favorability, a winner
\* whose normalized key is approve or favorable in any letter case is
\* green and one whose key is disapprove or unfavorable is orange, this
\* rule being applied before any other.
C11_SentimentRuleFirst ==
    rendered = "table" =>
        \A r \in 1..Len(table.rows) :
           LET cell == table.rows[r].result
               rule == SentimentColour(props.polls[r].poll_type, cell.winner)
           IN  (cell.text = "winner" /\ rule # Undefined) => cell.color = rule

\* C11 amended: the colour-map entry of the winner is used when there is
\* one; a winner without an entry, in a poll of type approval or
\* favorability, is green when its normalized key is approve or favorable
\* in any letter case and orange when it is disapprove or unfavorable.
C11_SentimentRuleAfterColourMap ==
    rendered = "table" =>
        \A r \in 1..Len(table.rows) :
           LET cell == table.rows[r].result
               rule == SentimentColour(props.polls[r].poll_type, cell.winner)
           IN  (cell.text = "winner" /\ rule # Undefined) =>
                  cell.color = IF HasColourMapEntry(cell.winner)
                               THEN props.colorMap[cell.winner]
                               ELSE rule

\* APPROVE wins a Favorability poll and is green; Unfavorable. wins another
\* and is orange; the colour map has no entries
C11_Witness ==
    /\ rendered = "table"
    /\ props.colorMap = NoColors
    /\ props.pollType = T_Favorability
    /\ Len(table.rows) = 2
    /\ table.rows[1].result.text = "winner"
    /\ table.rows[1].result.winner = L_APPROVE
    /\ table.rows[1].result.color = GREEN
    /\ props.polls[2].answers = <<[choice |-> L_UnfavorableDot, pct |-> 45]>>
    /\ table.rows[2].result.text = "winner"
    /\ table.rows[2].result.color = ORANGE

\* C12 as stated: in a generic-ballot poll the winner Dem is blue and the
\* winner Rep is red, whatever the colour map holds for those labels.
C12_BallotRuleWhateverTheMap ==
    rendered = "table" =>
        \A r \in 1..Len(table.rows) :
           LET cell == table.rows[r].result
               rule == BallotColour(props.polls[r].poll_type, cell.winner)
           IN  (cell.text = "winner" /\ rule # Undefined) => cell.color = rule

\* C12 amended: in a generic-ballot poll a winner without a colour-map
\* entry is blue when its normalized key is dem in any letter case and red
\* when it is rep; a winner with an entry has the entry's colour.
C12_BallotRuleAfterColourMap ==
    rendered = "table" =>
        \A r \in 1..Len(table.rows) :
           LET cell == table.rows[r].result
               rule == BallotColour(props.polls[r].poll_type, cell.winner)
           IN  (cell.text = "winner" /\ rule # Undefined) =>
                  cell.color = IF HasColourMapEntry(cell.winner)
                               THEN props.colorMap[cell.winner]
                               ELSE rule

\* Dem wins one generic-ballot poll and is blue, REP. wins another and is
\* red; the colour map has no entries
C12_Witness ==
    /\ rendered = "table"
    /\ props.colorMap = NoColors
    /\ props.pollType = STR_generic_ballot
    /\ Len(table.rows) = 2
    /\ props.polls[1].answers = <<[choice |-> L_Dem, pct |-> 45],
                                  [choice |-> L_RepDot, pct |-> 44]>>
    /\ table.rows[1].result.winner = L_Dem
    /\ table.rows[1].result.color = BLUE
    /\ props.polls[2].answers = <<[choice |-> L_RepDot, pct |-> 45]>>
    /\ table.rows[2].result.winner = L_Rep
    /\ table.rows[2].result.color = RED

(***************************************************************************)
(* Properties of the colour map of a division                              *)
(***************************************************************************)
\* C13 as stated: every display name of the choices that the summary, the
\* charts and the table show is a key of the division's colour map.
C13_ColourMapTotalOverChoices ==
    /\ rendered # "none" =>
          \A c \in 1..Len(choices) :
             choices[c].displayName \in DOMAIN props.colorMap
    /\ rendered = "table" =>
          \A c \in 1..Len(table.uniqueChoices) :
             table.uniqueChoices[c].displayName \in DOMAIN props.colorMap

(***************************************************************************)
(* Properties of the outcome of a search                                   *)
(***************************************************************************)
\* C15: after a request that failed, whatever the cause, the page shows
\* the one fixed error message and no division; after a request that
\* succeeded it holds the divisions of the response and shows no error.
C15_FailureShowsOnlyGenericError ==
    /\ data.err # "none" =>
          /\ error = ERROR_MESSAGE
          /\ ErrorBannerShown
          /\ ~PollsShown
          /\ polls = <<>>
          /\ pollsGrouped = <<>>
          /\ ~loading
    /\ data.received =>
          /\ error = ""
          /\ ~ErrorBannerShown
          /\ Len(pollsGrouped) > 0 <=> Len(data.body) > 0
          /\ Len(polls) = SumSeq([d \in 1..Len(data.body) |-> Len(data.body[d].polls)])

\* a request answered with a non-OK status after an earlier search had
\* shown divisions
C15_Witness ==
    /\ data.err = "status"
    /\ error = ERROR_MESSAGE
    /\ activeTab # <<>>
    /\ polls = <<>>

\* C16 as stated: when a response without divisions arrives, error is
\* empty, polls and pollsGrouped are empty, loading is false, and the
\* 'No polls found' message is shown and the error banner is not.
C16_EmptyResponseShowsNoPollsFound ==
    [][(fetching # <<>> /\ data'.received /\ data'.body = <<>>) =>
          /\ error' = ""
          /\ polls' = <<>>
          /\ pollsGrouped' = <<>>
          /\ ~loading'
          /\ NoPollsFoundShown'
          /\ ~ErrorBannerShown']_vars

(***************************************************************************)
(* Properties of the PartyResolver                                         *)
(***************************************************************************)
ReturnedFor(n) == {c \in Callers : callers[c].pc = "returned" /\ callers[c].name = n}

\* C17: for a name that was not cached, however many callers resolve it
\* at once, one external lookup is issued and no more, never is more than
\* one lookup of the name outstanding, and all callers receive the same
\* party.
C17_SingleFlight ==
    \A n \in Names :
       /\ lookups[n].issued <= 1
       /\ lookups[n].outstanding <= 1
       /\ \A c \in ReturnedFor(n) :
             /\ lookups[n].issued = 1
             /\ \A d \in ReturnedFor(n) : callers[d].result = callers[c].result

\* every caller resolved Ann before she was cached, and all have returned
C17_Witness ==
    /\ ReturnedFor("Ann") = Callers
    /\ \A c \in Callers : callers[c].missed /\ callers[c].result = "Democrat"
    /\ lookups["Ann"].issued = 1

\* C18: an entry of the cache, once written, stays with the same value in
\* every later state; no external lookup of its name is issued any more,
\* and every resolve of the name that returns, returns the entry.
C18_EntriesAreImmutable ==
    [][\A n \in Names :
          partyCache[n] # Absent =>
             /\ partyCache'[n] = partyCache[n]
             /\ lookups'[n].issued = lookups[n].issued
             /\ \A c \in Callers :
                   (callers'[c].pc = "returned" /\ callers'[c].name = n)
                      => callers'[c].result = partyCache[n]]_vars

\* Bob was cached as Republican by one caller, and a later resolve got the
\* entry from the cache
C18_Witness ==
    /\ partyCache["Bob"] = "Republican"
    /\ lookups["Bob"].issued = 1
    /\ \E c, d \in ReturnedFor("Bob") :
          /\ callers[c].missed
          /\ ~callers[d].missed
          /\ callers[d].result = "Republican"

\* C19: a lookup that fails, times out or returns unparseable output
\* resolves to Unknown and Unknown is cached; every resolve of the name
\* returns Unknown without another lookup, and no caller ever gets
\* anything but a party.
C19_FailedLookupCachedAsUnknown ==
    /\ \A n \in Names :
          lookups[n].outcome \in LookupFailures =>
             /\ partyCache[n] = "Unknown"
             /\ lookups[n].issued = 1
             /\ \A c \in ReturnedFor(n) : callers[c].result = "Unknown"
    /\ \A c \in Callers :
          callers[c].pc = "returned" => callers[c].result \in PARTIES

\* the lookup of Ann timed out; a caller that resolved her afterwards got
\* Unknown from the cache
C19_Witness ==
    /\ lookups["Ann"].outcome = "timeout"
    /\ lookups["Ann"].issued = 1
    /\ partyCache["Ann"] = "Unknown"
    /\ \E c \in ReturnedFor("Ann") : ~callers[c].missed /\ callers[c].result = "Unknown"

(***************************************************************************)
(* Properties of the PipelineOrchestrator                                  *)
(***************************************************************************)
\* C20: a failure in the task of one Division never aborts the request:
\* the request ends in an error only when the fetch failed, and otherwise
\* its response holds every Division whose task completed and omits every
\* Division whose task failed.
C20_DivisionFailureIsIsolated ==
    /\ response.status = "error" => DOMAIN tasks = {}
    /\ request.pc = "returned" /\ DOMAIN tasks # {} => response.status = "ok"
    /\ response.status = "ok" =>
          \A d \in DOMAIN tasks :
             /\ tasks[d].stage = "done" => d \in response.divisions
             /\ tasks[d].stage = "failed" => d \notin response.divisions

\* one Division failed and is omitted, the other completed, with the
\* unmerged clusters, and is in the response
C20_Witness ==
    /\ response.status = "ok"
    /\ DOMAIN tasks = {"Biden_approval", "Trump_favorability"}
    /\ tasks["Biden_approval"].stage = "failed"
    /\ tasks["Trump_favorability"] = [stage |-> "done", degraded |-> TRUE]
    /\ response.divisions = {"Trump_favorability"}

(***************************************************************************)
(* Properties of the display names, the page's requests and the top ten    *)
(***************************************************************************)
\* does the answer take the replacement branch of an entry whose displayName
\* is the canonical key?
ReplacementBranchTaken(answer) ==
    Len(answer.choice) < Len(normalizeChoice(answer.choice))

ResultsShown == ~loading /\ Len(polls) > 0

\* C22: whenever loading is false and polls is non-empty, activeTab is a key
\* of pollsGrouped, so pollsGrouped.get(activeTab) in the heading is defined,
\* after any sequence of successful, empty and failed searches.
C22_ActiveTabIsAGroupKey ==
    ResultsShown => GroupIndex(pollsGrouped, activeTab) # 0

\* results shown by a search that followed another one: activeTab, never
\* reset, is the key of the second group after a click on its tab
C22_Witness ==
    /\ ResultsShown
    /\ Len(pollsGrouped) = 2
    /\ activeTab = pollsGrouped[2].key
    /\ activeTab # <<>>

\* C23: at most one polls request is outstanding at any time: a request is
\* issued only by a step taken while loading is false, and the request that
\* settles is the only one outstanding, hence the last one started, and
\* leaves the page showing its outcome with no request outstanding.
C23_AtMostOneRequestOutstanding ==
    [][/\ Len(fetching') <= 1
       /\ Len(fetching') > Len(fetching) =>
             /\ ~loading
             /\ fetching' = <<query>>
       /\ Len(fetching') < Len(fetching) =>
             /\ fetching' = <<>>
             /\ data'.query = fetching[Len(fetching)]
             /\ ~loading']_vars

\* a second search has been started after the first one settled
C23_Witness ==
    /\ Len(fetching) = 1
    /\ loading
    /\ activeTab # <<>>

\* C24: whenever error is non-empty, polls and pollsGrouped are empty: the
\* results of an earlier successful search are never shown together with the
\* error of a later failed one.
C24_ErrorMeansNoResults ==
    error # "" => (polls = <<>> /\ pollsGrouped = <<>>)

\* a search failed on a network error after an earlier search had shown
\* results (activeTab still names a group of that search)
C24_Witness ==
    /\ error = ERROR_MESSAGE
    /\ data.err = "network"
    /\ activeTab # <<>>
    /\ ~loading

\* C25: loading is true exactly while a request is outstanding, from the
\* start of a search until its request settles; every started search leads
\* to loading being false again, whether the request succeeds, returns a
\* non-OK status or throws; no request is ever started for a blank or
\* whitespace-only query, and no step taken while the page is idle with such
\* a query in the input (a submit among them) changes loading, error, polls,
\* pollsGrouped or the outstanding requests, nor moves activeTab off the keys
\* of pollsGrouped.
C25_LoadingFollowsTheRequest ==
    /\ [](loading <=> fetching # <<>>)
    /\ loading ~> ~loading
    /\ [](\A r \in 1..Len(fetching) : Trim(fetching[r]) # <<>>)
    /\ [][(~loading /\ Trim(query) = <<>>) =>
            /\ UNCHANGED <<loading, error, polls, pollsGrouped, fetching>>
            /\ activeTab' # activeTab => GroupIndex(pollsGrouped, activeTab') # 0]_vars

\* a search has settled by throwing on the response body and loading is
\* false again, with a whitespace-only query in the input
C25_Witness ==
    /\ ~loading
    /\ fetching = <<>>
    /\ data.err = "body"
    /\ data.query # <<>>
    /\ query = <<" ">>

\* C26 as stated: the 'No polls found' message is shown only when the last
\* search settled successfully with zero polls and was a search for the text
\* now in the input; in particular it is not shown before the first search
\* nor after the text has been edited.
C26_NoPollsFoundOnlyAfterEmptySearch ==
    NoPollsFoundShown =>
        /\ data.received
        /\ data.query = query
        /\ Len(polls) = 0

\* a.average = b.average and a.average <= b.average, for exact fractions
SameAverage(a, b) == a.num * b.den = b.num * a.den

AverageAtMost(a, b) == a.num * b.den <= b.num * a.den

\* C27: the first ten column headers that PollsTable derives from its own
\* choiceStats and uniqueChoices are, in the same order, the display names
\* of the choices returned by calculateChoicesWithColors, with the same
\* averages.
C27_TableHeadersAreTheChoices ==
    rendered = "table" =>
        LET headers == SubSeq(table.uniqueChoices, 1,
                              IF Len(table.uniqueChoices) < TopChoices
                              THEN Len(table.uniqueChoices) ELSE TopChoices)
        IN  /\ Len(headers) = Len(choices)
            /\ \A i \in 1..Len(headers) :
                  /\ headers[i].displayName = choices[i].displayName
                  /\ SameAverage(headers[i].average, choices[i].average)
            /\ \A r \in 1..Len(table.rows) :
                  Len(table.rows[r].cells) = Len(choices)

\* a table over eleven clusters, one of them fed by two spellings from two
\* polls
C27_Witness ==
    /\ rendered = "table"
    /\ Len(props.polls) = 2
    /\ Len(table.uniqueChoices) = 11
    /\ Len(choices) = 10
    /\ \E i \in 1..Len(choices) :
          /\ choices[i].displayName = TopLabel(1)
          /\ choices[i].average = [num |-> 91, den |-> 2]

\* the place of a returned choice's cluster in the Map, in insertion order
ClusterOf(item) == EntryIndex(choiceStats, item.displayName)

\* C28: calculateChoicesWithColors returns at most 10 choices, each a
\* cluster of the list with its average, in non-increasing order of average;
\* clusters with equal averages appear in the order in which their keys
\* were first encountered; a cluster is left out only when ten are
\* returned, and its average is no greater than that of any returned one.
C28_TopTenByAverage ==
    rendered # "none" =>
        /\ Len(choices) <= 10
        /\ \A i \in 1..Len(choices) :
              /\ ClusterOf(choices[i]) # 0
              /\ SameAverage(choices[i].average,
                             [num |-> choiceStats[ClusterOf(choices[i])].total,
                              den |-> choiceStats[ClusterOf(choices[i])].count])
        /\ \A i, j \in 1..Len(choices) :
              i < j =>
                 /\ AverageAtMost(choices[j].average, choices[i].average)
                 /\ SameAverage(choices[i].average, choices[j].average)
                       => ClusterOf(choices[i]) < ClusterOf(choices[j])
        /\ \A k \in 1..Len(choiceStats) :
              (\A i \in 1..Len(choices) : ClusterOf(choices[i]) # k) =>
                 /\ Len(choices) = 10
                 /\ \A i \in 1..Len(choices) :
                       AverageAtMost([num |-> choiceStats[k].total,
                                      den |-> choiceStats[k].count],
                                     choices[i].average)

\* eleven clusters, ten returned: the last returned one ties with the one
\* left out, and the first two returned tie as well
C28_Witness ==
    /\ rendered = "chart"
    /\ Len(choiceStats) = 11
    /\ Len(choices) = 10
    /\ SameAverage(choices[1].average, choices[2].average)
    /\ ~SameAverage(choices[2].average, choices[10].average)
    /\ \E k \in 1..Len(choiceStats) :
          /\ \A i \in 1..Len(choices) : ClusterOf(choices[i]) # k
          /\ SameAverage([num |-> choiceStats[k].total, den |-> choiceStats[k].count],
                         choices[10].average)

\* the first answer of maximal percentage, in answer order
FirstMaximal(answers) ==
    CHOOSE w \in 1..Len(answers) :
        /\ \A j \in 1..Len(answers) : answers[j].pct <= answers[w].pct
        /\ \A j \in 1..(w - 1) : answers[j].pct < answers[w].pct

\* the highest percentage among the answers other than answers[w]
HighestBut(answers, w) ==
    CHOOSE p \in {answers[j].pct : j \in 1..Len(answers) \ {w}} :
        \A j \in 1..Len(answers) \ {w} : answers[j].pct <= p

\* the name under which an answer is shown as winner: its cluster's
\* displayName, or its own label when that is empty
ShownAs(answer) ==
    IF normalizeChoice(answer.choice) # <<>>
    THEN normalizeChoice(answer.choice) ELSE answer.choice

\* C29: for every poll with at least one answer getWinnerInfo returns as
\* winner the first answer of maximal percentage and a non-negative margin,
\* the winner's percentage minus the second-highest one, or the winner's
\* percentage when there is one answer; the row shows 'Tied' exactly when
\* that margin is 0 and '-' exactly when the poll has no answers.
C29_WinnerAndMargin ==
    rendered = "table" =>
        \A r \in 1..Len(props.polls) :
           LET answers == props.polls[r].answers
               cell == table.rows[r].result
           IN  /\ cell.text = "-" <=> Len(answers) = 0
               /\ Len(answers) > 0 =>
                     LET info == getWinnerInfo(props.polls[r], table.choiceStats)
                         w == FirstMaximal(answers)
                     IN  /\ info.winner = ShownAs(answers[w])
                         /\ info.margin >= 0
                         /\ info.margin = IF Len(answers) = 1 THEN answers[w].pct
                                          ELSE answers[w].pct - HighestBut(answers, w)
                         /\ cell.text = "Tied" <=> info.margin = 0
                         /\ cell.text # "Tied" =>
                               /\ cell.text = "winner"
                               /\ cell.winner = info.winner
                               /\ cell.margin = info.margin

\* a table with a poll whose second answer wins by one point over the first
\* and a poll whose only answer has a percentage of zero, shown as 'Tied'
C29_Witness ==
    /\ rendered = "table"
    /\ Len(props.polls) = 2
    /\ props.polls[1].answers = <<[choice |-> L_Approve, pct |-> 44],
                                  [choice |-> L_Dem, pct |-> 45]>>
    /\ table.rows[1].result.text = "winner"
    /\ table.rows[1].result.winner = L_Dem
    /\ table.rows[1].result.margin = 1
    /\ props.polls[2].answers = <<[choice |-> L_Approve, pct |-> 0]>>
    /\ table.rows[2].result.text = "Tied"

====
